---- MODULE Spec2Model ----
(***************************************************************************)
(* A model of the node-graph data-flow core of the visual pipeline editor: *)
(* the schema-typed ports of the cards, the NodeEditor connection protocol *)
(* (onConnectStart / onConnect / onConnectEnd / context menu / addNode),   *)
(* the NodeDataContext publish/subscribe store and the subscription and   *)
(* dedup logic of the Scene Renderer and AI Enhanced Image cards.          *)
(*                                                                         *)
(* React semantics kept by the model:                                      *)
(*  - a handler reads the state of the render it was created in, so every  *)
(*    action evaluates closures (edges, removedEdges, contextMenu,         *)
(*    connectionInProgress) on the unprimed state, and applies functional  *)
(*    updaters (setEdges(eds => ...)) in call order;                       *)
(*  - all setState calls of one event are batched into one step;           *)
(*  - a setTimeout(..., 0) callback is a later step of its own that keeps   *)
(*    the closure it was created with; it runs before the next user event; *)
(*  - passive effects (useEffect) of the cards run right after the commit  *)
(*    that changed one of their dependencies, cleanups first.               *)
(* JavaScript object identity of edges (Array.includes, !==) is the obj    *)
(* field of an edge record.                                                *)
(***************************************************************************)
EXTENDS Integers, Sequences, FiniteSets, TLC

\* ---------------------------------------------------------------- bounds
MaxNodes == 3
MaxEdgeObjs == 3
MaxSteps == 4
NumImages == 2
MaxStoreOps == 4
MaxFlowSteps == 5
NumProbes == 2
MaxUploads == 2
MaxCardSteps == 4

\* Date.now() at construction of the editor (an arbitrary reading > 1)
EpochNow == 2

\* ---------------------------------------------------------------- helpers
Range(s) == {s[i] : i \in 1..Len(s)}

\* ---------------------------------------------------------------- schemas
DataSchemas ==
  {"MODEL_3D", "SKYBOX_TEXTURE", "RENDERED_IMAGE", "ENHANCED_IMAGE",
   "GENERATED_VIDEO", "TEXT"}

Undefined == "undefined"

nodeTypes ==
  {"modelLoader", "skyboxGenerator", "sceneRenderer", "aiImageEnhancer",
   "aiEnhancedImage", "aiVideoGenerator", "videoPlayer", "genAIClip"}

\* the `inputs` array each card hands to BaseCard (id, schema)
CardInputs(type) ==
  CASE type = "sceneRenderer" ->
         << [id |-> "model-input", schema |-> "MODEL_3D"],
            [id |-> "skybox-input", schema |-> "SKYBOX_TEXTURE"] >>
    [] type = "aiImageEnhancer" ->
         << [id |-> "base-image-input", schema |-> "RENDERED_IMAGE"] >>
    [] type = "aiEnhancedImage" ->
         << [id |-> "rendered-image-input", schema |-> "RENDERED_IMAGE"] >>
    [] type = "aiVideoGenerator" ->
         << [id |-> "first-frame-input", schema |-> "ENHANCED_IMAGE"] >>
    [] type = "videoPlayer" ->
         << [id |-> "video-input", schema |-> "GENERATED_VIDEO"] >>
    [] type = "genAIClip" ->
         << [id |-> "enhanced-image-input", schema |-> "ENHANCED_IMAGE"] >>
    [] OTHER -> << >>

\* the `outputs` array each card hands to BaseCard (id, schema)
CardOutputs(type) ==
  CASE type = "modelLoader" ->
         << [id |-> "model-output", schema |-> "MODEL_3D"] >>
    [] type = "skyboxGenerator" ->
         << [id |-> "skybox-output", schema |-> "SKYBOX_TEXTURE"] >>
    [] type = "sceneRenderer" ->
         << [id |-> "render-output", schema |-> "RENDERED_IMAGE"] >>
    [] type = "aiImageEnhancer" ->
         << [id |-> "enhanced-image-output", schema |-> "ENHANCED_IMAGE"] >>
    [] type = "aiEnhancedImage" ->
         << [id |-> "enhanced-image-output", schema |-> "ENHANCED_IMAGE"] >>
    [] type = "aiVideoGenerator" ->
         << [id |-> "video-output", schema |-> "GENERATED_VIDEO"] >>
    [] type = "genAIClip" ->
         << [id |-> "video-output", schema |-> "GENERATED_VIDEO"] >>
    [] OTHER -> << >>

\* BaseCard renders one Handle type="target" per input and one
\* Handle type="source" per output
Handles(type) ==
  {[handleId |-> p.id, handleType |-> "target", schema |-> p.schema] :
      p \in Range(CardInputs(type))}
  \cup
  {[handleId |-> p.id, handleType |-> "source", schema |-> p.schema] :
      p \in Range(CardOutputs(type))}

\* ------------------------------------------------ handle ids as characters
W_model == <<"m", "o", "d", "e", "l">>
W_skybox == <<"s", "k", "y", "b", "o", "x">>
W_render == <<"r", "e", "n", "d", "e", "r">>
W_rendered == <<"r", "e", "n", "d", "e", "r", "e", "d">>
W_enhanced == <<"e", "n", "h", "a", "n", "c", "e", "d">>
W_video == <<"v", "i", "d", "e", "o">>
W_text == <<"t", "e", "x", "t">>
W_image == <<"i", "m", "a", "g", "e">>
W_base == <<"b", "a", "s", "e">>
W_first == <<"f", "i", "r", "s", "t">>
W_frame == <<"f", "r", "a", "m", "e">>
W_input == <<"i", "n", "p", "u", "t">>
W_output == <<"o", "u", "t", "p", "u", "t">>
Dash == <<"-">>

\* the characters of every handle id string the program uses
HandleChars(h) ==
  CASE h = "model-output" -> W_model \o Dash \o W_output
    [] h = "model-input" -> W_model \o Dash \o W_input
    [] h = "skybox-output" -> W_skybox \o Dash \o W_output
    [] h = "skybox-input" -> W_skybox \o Dash \o W_input
    [] h = "render-output" -> W_render \o Dash \o W_output
    [] h = "rendered-image-input" ->
         W_rendered \o Dash \o W_image \o Dash \o W_input
    [] h = "base-image-input" -> W_base \o Dash \o W_image \o Dash \o W_input
    [] h = "enhanced-image-input" ->
         W_enhanced \o Dash \o W_image \o Dash \o W_input
    [] h = "enhanced-image-output" ->
         W_enhanced \o Dash \o W_image \o Dash \o W_output
    [] h = "enhanced-output" -> W_enhanced \o Dash \o W_output
    [] h = "first-frame-input" ->
         W_first \o Dash \o W_frame \o Dash \o W_input
    [] h = "video-input" -> W_video \o Dash \o W_input
    [] h = "video-output" -> W_video \o Dash \o W_output
    [] h = "text-input" -> W_text \o Dash \o W_input
    [] h = "text-output" -> W_text \o Dash \o W_output
    [] OTHER -> << >>

\* String.prototype.includes
includes(hay, needle) ==
  \E i \in 1..(Len(hay) - Len(needle) + 1) :
     SubSeq(hay, i, i + Len(needle) - 1) = needle

\* the if / else-if chain of onConnectEnd that infers a schema from a handle id
SchemaFromHandleId(handleId) ==
  LET h == HandleChars(handleId) IN
  IF includes(h, W_model) THEN "MODEL_3D"
  ELSE IF includes(h, W_skybox) THEN "SKYBOX_TEXTURE"
  ELSE IF includes(h, W_render) THEN "RENDERED_IMAGE"
  ELSE IF includes(h, W_enhanced) THEN "ENHANCED_IMAGE"
  ELSE IF includes(h, W_video) THEN "GENERATED_VIDEO"
  ELSE IF includes(h, W_text) THEN "TEXT"
  ELSE Undefined

\* ------------------------------------------------------------ context menu
cardInputSchemas(type) ==
  CASE type = "sceneRenderer" -> {"MODEL_3D", "SKYBOX_TEXTURE"}
    [] type = "aiImageEnhancer" -> {"RENDERED_IMAGE"}
    [] type = "aiEnhancedImage" -> {"RENDERED_IMAGE"}
    [] type = "aiVideoGenerator" -> {"ENHANCED_IMAGE"}
    [] type = "videoPlayer" -> {"GENERATED_VIDEO"}
    [] type = "genAIClip" -> {"TEXT"}
    [] OTHER -> {}

cardOutputSchemas(type) ==
  CASE type = "modelLoader" -> {"MODEL_3D"}
    [] type = "skyboxGenerator" -> {"SKYBOX_TEXTURE"}
    [] type = "sceneRenderer" -> {"RENDERED_IMAGE"}
    [] type = "aiImageEnhancer" -> {"ENHANCED_IMAGE"}
    [] type = "aiEnhancedImage" -> {"ENHANCED_IMAGE"}
    [] type = "aiVideoGenerator" -> {"GENERATED_VIDEO"}
    [] type = "genAIClip" -> {"TEXT"}
    [] OTHER -> {}

allNodeTypes == nodeTypes

\* the node types the toolbar's "Add Node" dropdown offers
toolbarNodeTypes == {"modelLoader", "skyboxGenerator", "sceneRenderer"}

\* ------------------------------------------------------------ identifiers
NoNodeId == [pfx |-> "none", n |-> 0]

\* initialNodes[0].id = '1'
InitialNodeId == [pfx |-> "", n |-> 1]

\* `${Date.now()}`
NowNodeId(now) == [pfx |-> "", n |-> now]

\* `ai-enhanced-${Date.now()}`
AiEnhancedNodeId(now) == [pfx |-> "ai-enhanced-", n |-> now]

\* reactflow's getEdgeId: `reactflow__edge-${source}${sourceHandle}-${target}${targetHandle}`
getEdgeId(c) ==
  [pfx |-> "reactflow__edge-", t |-> 0, a |-> c.source, ah |-> c.sourceHandle,
   b |-> c.target, bh |-> c.targetHandle]

\* `edge-${Date.now()}`
NowEdgeId(now) ==
  [pfx |-> "edge-", t |-> now, a |-> NoNodeId, ah |-> "", b |-> NoNodeId, bh |-> ""]

\* `edge-${id}-${newNodeId}`
EnhanceEdgeId(id, newNodeId) ==
  [pfx |-> "edge-", t |-> 0, a |-> id, ah |-> "-", b |-> newNodeId, bh |-> ""]

\* ------------------------------------------------------------- data store
NoImage == 0

\* obj.field of a possibly absent entry (undefined is falsy, as 0 is)
FieldOf(entry, f) == IF f \in DOMAIN entry THEN entry[f] ELSE 0

\* the entry `undefined`
AbsentEntry == [f \in {} |-> 0]

\* NodeDataContext.getNodeData: nodeData[nodeId]
getNodeData(nd, nodeId) == IF nodeId \in DOMAIN nd THEN nd[nodeId] ELSE AbsentEntry

\* a merge with the spreads swapped: { ...data, ...prev[nodeId], timestamp }
MergeEntry_PrevWins(prev, data, now) ==
  [f \in (DOMAIN prev \cup DOMAIN data \cup {"timestamp"}) |->
     IF f = "timestamp" THEN now
     ELSE IF f \in DOMAIN prev THEN prev[f] ELSE data[f]]

\* { ...prev[nodeId], ...data, timestamp: Date.now() }
MergeEntry(prev, data, now) ==
  [f \in (DOMAIN prev \cup DOMAIN data \cup {"timestamp"}) |->
     IF f = "timestamp" THEN now
     ELSE IF f \in DOMAIN data THEN data[f] ELSE prev[f]]

\* a store update that forgets the spread of prev: { [nodeId]: newData }
PutEntry_OnlyThis(nd, nodeId, newData) == [k \in {nodeId} |-> newData]

\* { ...prev, [nodeId]: newData }
PutEntry(nd, nodeId, newData) ==
  [k \in (DOMAIN nd \cup {nodeId}) |-> IF k = nodeId THEN newData ELSE nd[k]]

\* subscribersRef.current[nodeId] || []
SubscribersOf(subs, nodeId) == IF nodeId \in DOMAIN subs THEN subs[nodeId] ELSE << >>

\* subscribeToNode: subscribersRef.current[nodeId].push(callback)
subscribeToNode(subs, nodeId, cb) ==
  [k \in (DOMAIN subs \cup {nodeId}) |->
     IF k = nodeId THEN Append(SubscribersOf(subs, nodeId), cb) ELSE subs[k]]

\* the function subscribeToNode returns: filter(cb => cb !== callback)
unsubscribe(subs, nodeId, cb) ==
  [k \in (DOMAIN subs \cup {nodeId}) |->
     IF k = nodeId
     THEN SelectSeq(SubscribersOf(subs, nodeId), LAMBDA c : c # cb)
     ELSE subs[k]]

\* ------------------------------------------------------------ model files
\* the names of the files offered to the model loader, each a sequence of
\* pieces of text; a file is referred to by the position of its name here
FileNames ==
  << << "model", ".", "GLB" >>, << "model", ".", "stl" >>,
     << "model", ".", "txt" >>, << "glb" >>,
     << "model", ".", "glb", ".", "txt" >>, << "U+0130", ".", "glb" >> >>

\* no file / no model
NoFile == 0

\* the file name state 'Default Cube'
DefaultCube == 0

\* const maxSize = 50 * 1024 * 1024
maxSize == 50 * 1024 * 1024

\* the sizes of the files offered, in bytes
FileSizes == {1, maxSize, maxSize + 1}

\* String.prototype.toLowerCase, piece by piece: "U+0130" (capital I with dot
\* above) becomes the two code units i and U+0307
RECURSIVE toLowerCase(_)
toLowerCase(name) ==
  IF name = << >> THEN << >>
  ELSE (CASE Head(name) = "GLB" -> << "glb" >>
          [] Head(name) = "U+0130" -> << "i", "U+0307" >>
          [] OTHER -> << Head(name) >>) \o toLowerCase(Tail(name))

\* String.prototype.lastIndexOf: the last position of piece x, or -1;
\* positions count from 0
lastIndexOf(name, x) ==
  LET at == {k \in 1..Len(name) : name[k] = x} IN
  IF at = {} THEN -1 ELSE (CHOOSE k \in at : \A j \in at : j <= k) - 1

\* String.prototype.substring(start): a negative start counts as 0
substring(name, start) ==
  SubSeq(name, (IF start < 0 THEN 0 ELSE start) + 1, Len(name))

\* const validExtensions = ['.stl', '.obj', '.glb', '.gltf']
validExtensions ==
  {<< ".", "stl" >>, << ".", "obj" >>, << ".", "glb" >>, << ".", "gltf" >>}

\* file.name.toLowerCase().substring(file.name.lastIndexOf('.'))
fileExtension(name) == substring(toLowerCase(name), lastIndexOf(name, "."))

\* file.size > maxSize
TooLarge(size) == size > maxSize

\* ModelLoaderCard.handleFileUpload up to its await, on card state c, for
\* file k of FileNames with `size` bytes
handleFileUpload(c, k, size) ==
  LET c1 == [c EXCEPT !.uploadError = ""] IN
  IF fileExtension(FileNames[k]) \notin validExtensions
  THEN [c1 EXCEPT !.uploadError = "Unsupported file type"]
  ELSE IF TooLarge(size)
  THEN [c1 EXCEPT !.uploadError = "File too large"]
  ELSE [c1 EXCEPT !.isLoading = TRUE, !.fileName = k, !.pendingFile = k]

\* ------------------------------------------------------------------ cards
ConsumerTypes == {"sceneRenderer", "aiEnhancedImage"}

\* the refs and state of a freshly mounted card, with three history fields:
\* started (the images handed to enhanceSceneWithAI, in order), failed (the
\* images whose enhancement did not succeed) and rendered (the snapshots
\* handleRender published, in order)
NewCard ==
  [lastProcessedImage |-> NoImage, isEnhancing |-> FALSE, inflight |-> << >>,
   enhancedImage |-> NoImage, lastRender |-> NoImage,
   started |-> << >>, failed |-> {}, rendered |-> << >>,
   fileName |-> DefaultCube, isLoading |-> FALSE, uploadError |-> "",
   hasCustomModel |-> FALSE, currentModel |-> NoFile, pendingFile |-> NoFile,
   isGenerating |-> FALSE, previewImage |-> NoImage, generatedVideo |-> NoImage,
   uploads |-> 0]

\* result.imageUrl of a successful enhancement of img
EnhancedUrl(img) == img + NumImages

\* a handleEnhance whose guard does not look at isEnhancingRef
handleEnhance_NoBusyGuard(c, img) ==
  IF img = NoImage \/ c.lastProcessedImage = img
  THEN c
  ELSE [c EXCEPT !.lastProcessedImage = img, !.isEnhancing = TRUE,
                 !.inflight = Append(@, img), !.started = Append(@, img)]

\* AIEnhancedImageCard.handleEnhance up to its await (inflight holds the
\* pending enhanceSceneWithAI calls, started logs every call made)
handleEnhance(c, img) ==
  IF img = NoImage \/ c.isEnhancing \/ c.lastProcessedImage = img
  THEN c
  ELSE [c EXCEPT !.lastProcessedImage = img, !.isEnhancing = TRUE,
                 !.inflight = Append(@, img), !.started = Append(@, img)]

\* the body shared by the existing-data read and the subscriber callback
\* of AIEnhancedImageCard
OnRenderedImage(c, edge, entry) ==
  LET img == FieldOf(entry, "renderedImage") IN
  IF img # NoImage /\ edge.targetHandle = "rendered-image-input"
       /\ c.lastProcessedImage # img
  THEN handleEnhance(c, img)
  ELSE c

\* one subscriber callback invoked with the merged entry
Invoke(cb, entry, st) ==
  CASE cb.kind = "ai" ->
         [st EXCEPT !.cards[cb.owner] = OnRenderedImage(@, cb.edge, entry)]
    [] cb.kind = "probe" ->
         [st EXCEPT !.calls = Append(@, [cb |-> cb.owner, entry |-> entry])]
    [] OTHER -> st

\* a forEach that walks the subscriber list from its end
RECURSIVE Notify_Reversed(_, _, _)
Notify_Reversed(list, entry, st) ==
  IF list = << >> THEN st
  ELSE Notify_Reversed(SubSeq(list, 1, Len(list) - 1), entry,
                       Invoke(list[Len(list)], entry, st))

\* nodeSubscribers.forEach(callback => callback(newData))
RECURSIVE Notify(_, _, _)
Notify(list, entry, st) ==
  IF list = << >> THEN st
  ELSE Notify(Tail(list), entry, Invoke(Head(list), entry, st))

\* the subscriber lists of the node ids in `keys`, one after the other
RECURSIVE AllSubscribers(_, _)
AllSubscribers(subs, keys) ==
  IF keys = {} THEN << >>
  ELSE LET k == CHOOSE x \in keys : TRUE
       IN subs[k] \o AllSubscribers(subs, keys \ {k})

\* an updateNodeData that notifies the subscribers of every node
updateNodeData_NotifiesAll(st, subs, nodeId, data, now) ==
  LET newData == MergeEntry(getNodeData(st.nd, nodeId), data, now)
      told == Notify(AllSubscribers(subs, DOMAIN subs), newData, st)
  IN [told EXCEPT !.nd = PutEntry(st.nd, nodeId, newData)]

\* NodeDataContext.updateNodeData; st = [nd, cards, calls]
updateNodeData(st, subs, nodeId, data, now) ==
  LET newData == MergeEntry(getNodeData(st.nd, nodeId), data, now)
      told == Notify(SubscribersOf(subs, nodeId), newData, st)
  IN [told EXCEPT !.nd = PutEntry(st.nd, nodeId, newData)]

\* the callback one effect run registers for one edge
CardCallback(kind, i, edge) == [kind |-> kind, owner |-> i, edge |-> edge]

\* the forEach body of a card's subscription effect for one connected edge
RECURSIVE SubscribeEdges(_, _, _, _, _)
SubscribeEdges(kind, i, es, nd, st) ==
  IF es = << >> THEN st
  ELSE LET edge == Head(es)
           existingData == getNodeData(nd, edge.source)
           c1 == IF kind = "ai"
                 THEN OnRenderedImage(st.cards[i], edge, existingData)
                 ELSE st.cards[i]
       IN SubscribeEdges(kind, i, Tail(es), nd,
            [subs |-> subscribeToNode(st.subs, edge.source, CardCallback(kind, i, edge)),
             cards |-> [st.cards EXCEPT ![i] = c1]])

\* the setup half of the subscription effects, card by card in render order
RECURSIVE SetupEffects(_, _, _, _, _, _)
SetupEffects(i, rerun, ns, es, nd, st) ==
  IF i > Len(ns) THEN st
  ELSE IF i \notin rerun THEN SetupEffects(i + 1, rerun, ns, es, nd, st)
  ELSE LET kind == IF ns[i].type = "aiEnhancedImage" THEN "ai" ELSE "sr"
           connectedEdges == SelectSeq(es, LAMBDA e : e.target = ns[i].id)
       IN SetupEffects(i + 1, rerun, ns, es, nd,
                       SubscribeEdges(kind, i, connectedEdges, nd, st))

\* a cleanup that calls none of the unsubscribe functions
CleanupEffects_None(subs, rerun) == subs

\* the cleanup half: every unsubscribe function of the re-running cards
CleanupEffects(subs, rerun) ==
  [k \in DOMAIN subs |->
     SelectSeq(subs[k], LAMBDA cb : ~(cb.kind \in {"ai", "sr"} /\ cb.owner \in rerun))]

\* React commit: mount the cards of new nodes, then re-run the subscription
\* effect of every consumer card that is new or whose dependencies
\* (edges, getNodeData) changed
RunEffects(ns, es, nd, subs, cs, changed) ==
  LET cs1 == cs \o [j \in 1..(Len(ns) - Len(cs)) |-> NewCard]
      rerun == {i \in 1..Len(ns) :
                  ns[i].type \in ConsumerTypes /\ (changed \/ i > Len(cs))}
  IN SetupEffects(1, rerun, ns, es, nd,
                  [subs |-> CleanupEffects(subs, rerun), cards |-> cs1])

\* ------------------------------------------------------------------ state
VARIABLES
  nodes,                  \* useNodesState: sequence of [id, type]
  edges,                  \* useEdgesState: sequence of edge records
  contextMenu,            \* useState contextMenu
  connectionInProgress,   \* useState connectionInProgress
  removedEdges,           \* useState removedEdges (the provisional side buffer)
  justOpenedContextMenu,  \* useRef justOpenedContextMenu
  timers,                 \* pending setTimeout(..., 0) callbacks with their closures
  flagTimer,              \* the pending setTimeout(..., 100) of onConnectEnd
  clock,                  \* Date.now()
  nextObj,                \* next edge object identity
  nodeData,               \* NodeDataProvider nodeData
  subscribers,            \* NodeDataProvider subscribersRef.current
  cards,                  \* per node (by position in nodes): the card's refs and state
  calls,                  \* history: invocations of the probe callbacks
  handles,                \* unsubscribe functions handed to the probe client
  steps,                  \* history: number of user events so far
  storeOps,               \* history: number of probe client operations so far
  ep,                     \* history: the most recent drag and how it ended
  discarded,              \* history: edges detached by a drag that ended in onConnect
  last,                   \* history: the most recent store or card operation
  svc                     \* one request to the generative-AI service functions

vars ==
  << nodes, edges, contextMenu, connectionInProgress, removedEdges,
     justOpenedContextMenu, timers, flagTimer, clock, nextObj, nodeData,
     subscribers, cards, calls, handles, steps, storeOps, ep, discarded, last,
     svc >>

editorVars ==
  << contextMenu, connectionInProgress, removedEdges, justOpenedContextMenu,
     timers, flagTimer >>

probeVars == << calls, handles, storeOps >>

\* the state outside the editor, the store and the pipeline cards
auxVars == << svc >>

\* ------------------------------------------------- generative-AI services
\* const maxPolls = 60 of generateVideoWithReplicate
maxPolls == 60

ServiceFunctions ==
  {"generateSkyboxImage", "enhanceImage", "generateVideo",
   "generateImageWithAI", "enhanceSceneWithAI", "generateVideoFromImage"}

\* request.provider; "undefined" selects the function's default
Providers == {"undefined", "gemini", "replicate", "mock"}

\* a service request: its arguments and environment (isDevMode, the two keys
\* of getAPIKeys, whether baseImage is a data: URL), the point it is at, the
\* loop counter of the poll loop, and the object it resolved with; network
\* and polls count the fetch calls issued (all of them, the poll fetches)
NoRequest ==
  [fn |-> "none", isDevMode |-> FALSE, provider |-> "undefined",
   geminiApiKey |-> FALSE, replicateApiKey |-> FALSE, dataUrl |-> FALSE,
   pc |-> "idle", pollCount |-> 0, network |-> 0, polls |-> 0,
   success |-> FALSE, error |-> "", lastStatus |-> "none"]

\* the request resolves with { success, error }
Resolve(r, success, error) ==
  [r EXCEPT !.pc = "done", !.success = success, !.error = error]

\* geminiAPI.generateSkyboxImage, geminiAPI.enhanceImage and
\* replicateAPI.generateVideo after their simulated delay: the mock result
\* with success: true, key or no key
MockedGemini(r) == Resolve(r, TRUE, "")

\* genAI.generateImageWithAI up to its first await
generateImageWithAI(r) ==
  IF ~r.geminiApiKey THEN Resolve(r, FALSE, "Gemini API key not found")
  ELSE IF r.provider \in {"undefined", "gemini"} THEN [r EXCEPT !.pc = "gemini"]
  ELSE Resolve(r, FALSE, "Provider not implemented")

\* genAI.enhanceSceneWithAI up to its first await
enhanceSceneWithAI(r) ==
  IF r.isDevMode THEN [r EXCEPT !.pc = "mock"]
  ELSE IF ~r.geminiApiKey THEN Resolve(r, FALSE, "Gemini API key not found")
  ELSE IF r.provider \in {"undefined", "gemini"} THEN [r EXCEPT !.pc = "gemini"]
  ELSE Resolve(r, FALSE, "Provider not implemented")

\* genAI.generateVideoWithReplicate up to its first await
generateVideoWithReplicate(r) ==
  IF ~r.replicateApiKey THEN Resolve(r, FALSE, "Replicate API key not found")
  ELSE IF r.dataUrl THEN [r EXCEPT !.pc = "upload"]
  ELSE [r EXCEPT !.pc = "create"]

\* genAI.generateVideoFromImage up to its first await
generateVideoFromImage(r) ==
  IF r.isDevMode THEN [r EXCEPT !.pc = "mock"]
  ELSE IF r.provider \in {"undefined", "replicate"} THEN generateVideoWithReplicate(r)
  ELSE IF r.provider = "mock" THEN [r EXCEPT !.pc = "mock"]
  ELSE Resolve(r, FALSE, "Provider not implemented")

\* a poll loop whose test lets one more iteration through
AfterPoll_OneMore(r, status) ==
  LET r1 == [r EXCEPT !.network = @ + 1, !.polls = @ + 1, !.lastStatus = status] IN
  CASE status = "succeeded" -> Resolve(r1, TRUE, "")
    [] status = "notOk" -> Resolve(r1, FALSE, "Failed to poll prediction")
    [] status \in {"failed", "canceled"} -> Resolve(r1, FALSE, "Video generation failed")
    [] OTHER ->
         IF r1.pollCount + 1 <= maxPolls
         THEN [r1 EXCEPT !.pollCount = @ + 1]
         ELSE Resolve([r1 EXCEPT !.pollCount = @ + 1], FALSE,
                      "Video generation timed out")

\* one iteration of the poll loop of generateVideoWithReplicate once its
\* fetch returned `status` ("notOk": the response is not OK), followed by the
\* loop test and, when it fails, the throw after the loop
AfterPoll(r, status) ==
  LET r1 == [r EXCEPT !.network = @ + 1, !.polls = @ + 1, !.lastStatus = status] IN
  CASE status = "succeeded" -> Resolve(r1, TRUE, "")
    [] status = "notOk" -> Resolve(r1, FALSE, "Failed to poll prediction")
    [] status \in {"failed", "canceled"} -> Resolve(r1, FALSE, "Video generation failed")
    [] OTHER ->
         IF r1.pollCount + 1 < maxPolls
         THEN [r1 EXCEPT !.pollCount = @ + 1]
         ELSE Resolve([r1 EXCEPT !.pollCount = @ + 1], FALSE,
                      "Video generation timed out")

NoMenu == [open |-> FALSE,
           sourceHandle |-> [nodeId |-> NoNodeId, handleId |-> "",
                             handleType |-> "none", schema |-> Undefined]]

NoConnection == [nodeId |-> NoNodeId, handleId |-> "", handleType |-> "none"]

NoEpisode ==
  [phase |-> "none", origin |-> NoConnection, detached |-> << >>,
   edges0 |-> << >>, nodes0 |-> 0,
   conn |-> [source |-> NoNodeId, sourceHandle |-> "", target |-> NoNodeId,
             targetHandle |-> ""]]

NoLast ==
  [op |-> "none", card |-> 0, img |-> NoImage, outcome |-> "none",
   node |-> NoNodeId, data |-> AbsentEntry, callsBefore |-> 0,
   subsBefore |-> << >>, ndBefore |-> [k \in {} |-> AbsentEntry],
   used |-> FALSE, cardBefore |-> NewCard, size |-> 0, fed |-> TRUE]

Init ==
  /\ nodes = << [id |-> InitialNodeId, type |-> "modelLoader"] >>
  /\ edges = << >>
  /\ contextMenu = NoMenu
  /\ connectionInProgress = NoConnection
  /\ removedEdges = << >>
  /\ justOpenedContextMenu = FALSE
  /\ timers = << >>
  /\ flagTimer = FALSE
  /\ clock = EpochNow
  /\ nextObj = 1
  /\ nodeData = [k \in {} |-> AbsentEntry]
  /\ subscribers = [k \in {} |-> << >>]
  /\ cards = << NewCard >>
  /\ calls = << >>
  /\ handles = {}
  /\ steps = 0
  /\ storeOps = 0
  /\ ep = NoEpisode
  /\ discarded = {}
  /\ last = NoLast
  /\ svc = NoRequest

\* ------------------------------------------------------------ graph helpers
\* the filter of onConnectStart / the `some` of onConnectEnd: edges on a handle
AtHandle(e, c) ==
  IF c.handleType = "source"
  THEN e.source = c.nodeId /\ e.sourceHandle = c.handleId
  ELSE e.target = c.nodeId /\ e.targetHandle = c.handleId

\* reactflow connectionExists
connectionExists(edge, es) ==
  \E i \in 1..Len(es) :
     /\ es[i].source = edge.source /\ es[i].target = edge.target
     /\ es[i].sourceHandle = edge.sourceHandle
     /\ es[i].targetHandle = edge.targetHandle

\* reactflow addEdge(edgeParams, edges)
addEdge(edge, es) == IF connectionExists(edge, es) THEN es ELSE Append(es, edge)

\* every handle the cards on the canvas render
HandlesOnCanvas ==
  UNION {{[nodeId |-> nodes[i].id, handleId |-> h.handleId,
            handleType |-> h.handleType, schema |-> h.schema] :
             h \in Handles(nodes[i].type)} : i \in 1..Len(nodes)}

\* the commit of one step: the new graph and store, then the cards' effects
Commit(ns, es, st, changed) ==
  LET r == RunEffects(ns, es, st.nd, subscribers, st.cards, changed) IN
  /\ nodes' = ns
  /\ edges' = es
  /\ nodeData' = st.nd
  /\ calls' = st.calls
  /\ subscribers' = r.subs
  /\ cards' = r.cards

Here == [nd |-> nodeData, cards |-> cards, calls |-> calls]

\* a reading `now` of Date.now(): the same millisecond as the reading before
\* it, or a later one
ReadClock(now) ==
  /\ now \in {clock, clock + 1}
  /\ clock' = now

\* a user event can happen: no drag is in progress and the zero-delay and
\* 100 ms timers of the previous event have run
UserCanAct ==
  /\ connectionInProgress.handleType = "none"
  /\ timers = << >>
  /\ ~flagTimer

\* one more user event on the canvas, within the bound on their number
UserActs ==
  /\ UserCanAct
  /\ steps < MaxSteps
  /\ steps' = steps + 1

\* one more user event on a card, within the bound on their number
CardActs ==
  /\ UserCanAct
  /\ steps < MaxFlowSteps
  /\ steps' = steps + 1

\* ---------------------------------------------------------- editor actions
\* the restore closure onConnectEnd hands to setTimeout(..., 0)
RestoreTimer(buf, conn) ==
  [kind |-> "restore", removedEdges |-> buf, conn |-> conn,
   sourceHandle |-> NoMenu.sourceHandle, newNodeId |-> NoNodeId]

\* the edge-synthesis closure addNode hands to setTimeout(..., 0)
AddEdgeTimer(sourceHandle, newNodeId) ==
  [kind |-> "addEdge", removedEdges |-> << >>, conn |-> NoConnection,
   sourceHandle |-> sourceHandle, newNodeId |-> newNodeId]

\* NodeEditor.onConnectStart
onConnectStart(h) ==
  LET c == [nodeId |-> h.nodeId, handleId |-> h.handleId, handleType |-> h.handleType]
      existingEdges == SelectSeq(edges, LAMBDA e : AtHandle(e, c))
      es1 == IF Len(existingEdges) > 0
             THEN SelectSeq(edges, LAMBDA e : e \notin Range(existingEdges))
             ELSE edges
  IN /\ UserActs
     /\ connectionInProgress' = c
     /\ removedEdges' = IF Len(existingEdges) > 0 THEN existingEdges ELSE removedEdges
     /\ Commit(nodes, es1, Here, Len(existingEdges) > 0)
     /\ ep' = [NoEpisode EXCEPT !.phase = "dragging", !.origin = c,
                                !.detached = existingEdges, !.edges0 = edges,
                                !.nodes0 = Len(nodes)]
     /\ UNCHANGED << auxVars, contextMenu, justOpenedContextMenu, timers, flagTimer, clock,
                     nextObj, handles, storeOps, discarded, last >>

\* the Connection reactflow builds for a drop of the dragged line on handle h
ConnectionTo(c, h) ==
  IF c.handleType = "source"
  THEN [source |-> c.nodeId, sourceHandle |-> c.handleId,
        target |-> h.nodeId, targetHandle |-> h.handleId]
  ELSE [source |-> h.nodeId, sourceHandle |-> h.handleId,
        target |-> c.nodeId, targetHandle |-> c.handleId]

\* the edge object addEdge makes of a Connection
EdgeOf(conn, id, obj) ==
  [id |-> id, source |-> conn.source, sourceHandle |-> conn.sourceHandle,
   target |-> conn.target, targetHandle |-> conn.targetHandle, obj |-> obj]

\* NodeEditor.onConnect: setEdges(eds => addEdge(params, eds))
onConnect(params, es) == addEdge(EdgeOf(params, getEdgeId(params), nextObj), es)

\* pointer-up over a handle of the other type: reactflow calls onConnect and
\* then onConnectEnd (no isValidConnection prop is given to ReactFlow)
DropOnHandle(h) ==
  LET conn == ConnectionTo(connectionInProgress, h)
      es1 == onConnect(conn, edges)
  IN /\ connectionInProgress.handleType # "none"
     /\ h.handleType # connectionInProgress.handleType
     /\ nextObj <= MaxEdgeObjs
     /\ removedEdges' = << >>
     /\ timers' = Append(timers, RestoreTimer(removedEdges, connectionInProgress))
     /\ connectionInProgress' = NoConnection
     /\ nextObj' = IF es1 # edges THEN nextObj + 1 ELSE nextObj
     /\ Commit(nodes, es1, Here, es1 # edges)
     /\ ep' = [ep EXCEPT !.phase = "connected", !.conn = conn]
     /\ discarded' = discarded \cup Range(ep.detached)
     /\ UNCHANGED << auxVars, contextMenu, justOpenedContextMenu, flagTimer, clock,
                     handles, steps, storeOps, last >>

\* pointer-up over a node body or over a handle reactflow does not connect
\* to: onConnectEnd, else branch
DropOnNode ==
  /\ connectionInProgress.handleType # "none"
  /\ timers' = Append(timers, RestoreTimer(removedEdges, connectionInProgress))
  /\ connectionInProgress' = NoConnection
  /\ ep' = [ep EXCEPT !.phase = "cancelled"]
  /\ UNCHANGED << auxVars, nodes, edges, contextMenu, removedEdges, justOpenedContextMenu,
                  flagTimer, clock, nextObj, nodeData, subscribers, cards, calls,
                  handles, steps, storeOps, discarded, last >>

\* pointer-up over empty canvas: onConnectEnd, context menu branch
DropOnCanvas ==
  /\ connectionInProgress.handleType # "none"
  /\ justOpenedContextMenu' = TRUE
  /\ contextMenu' =
       [open |-> TRUE,
        sourceHandle |->
          [nodeId |-> connectionInProgress.nodeId,
           handleId |-> connectionInProgress.handleId,
           handleType |-> connectionInProgress.handleType,
           schema |-> SchemaFromHandleId(connectionInProgress.handleId)]]
  /\ flagTimer' = TRUE
  /\ connectionInProgress' = NoConnection
  /\ ep' = [ep EXCEPT !.phase = "menu"]
  /\ UNCHANGED << auxVars, nodes, edges, removedEdges, timers, clock, nextObj, nodeData,
                  subscribers, cards, calls, handles, steps, storeOps,
                  discarded, last >>

\* a deferred restore that reinserts the buffer without looking at the origin
RestoreEdges_NoOriginCheck(es, buf, conn) == es \o buf

\* the updater of the deferred restore: reinsert unless an edge is on the origin
RestoreEdges(es, buf, conn) ==
  IF \E i \in 1..Len(es) : AtHandle(es[i], conn) THEN es ELSE es \o buf

\* the setTimeout(..., 0) callback of onConnectEnd
RestoreTimerFires ==
  /\ timers # << >>
  /\ Head(timers).kind = "restore"
  /\ LET t == Head(timers)
         es1 == IF Len(t.removedEdges) > 0
                THEN RestoreEdges(edges, t.removedEdges, t.conn)
                ELSE edges
     IN /\ removedEdges' = IF Len(t.removedEdges) > 0 THEN << >> ELSE removedEdges
        /\ Commit(nodes, es1, Here, es1 # edges)
  /\ timers' = Tail(timers)
  /\ UNCHANGED << auxVars, contextMenu, connectionInProgress, justOpenedContextMenu,
                  flagTimer, clock, nextObj, handles, steps, storeOps, ep,
                  discarded, last >>

\* the setTimeout(..., 100) callback of onConnectEnd
FlagTimerFires ==
  /\ flagTimer
  /\ justOpenedContextMenu' = FALSE
  /\ flagTimer' = FALSE
  /\ UNCHANGED << auxVars, nodes, edges, contextMenu, connectionInProgress, removedEdges,
                  timers, clock, nextObj, nodeData, subscribers, cards, calls,
                  handles, steps, storeOps, ep, discarded, last >>

\* NodeEditor.onPaneClick
onPaneClick ==
  /\ connectionInProgress.handleType = "none"
  /\ timers = << >>
  /\ steps < MaxSteps
  /\ steps' = steps + 1
  /\ contextMenu' = IF justOpenedContextMenu THEN contextMenu ELSE NoMenu
  /\ ep' = IF justOpenedContextMenu THEN ep
           ELSE IF ep.phase = "menu" THEN [ep EXCEPT !.phase = "dismissed"]
           ELSE NoEpisode
  /\ UNCHANGED << auxVars, nodes, edges, connectionInProgress, removedEdges,
                  justOpenedContextMenu, timers, flagTimer, clock, nextObj,
                  nodeData, subscribers, cards, calls, handles, storeOps,
                  discarded, last >>

\* NodeEditor.onContextMenu (right click)
onContextMenu ==
  /\ UserActs
  /\ contextMenu' = [NoMenu EXCEPT !.open = TRUE]
  /\ ep' = NoEpisode
  /\ UNCHANGED << auxVars, nodes, edges, connectionInProgress, removedEdges,
                  justOpenedContextMenu, timers, flagTimer, clock, nextObj,
                  nodeData, subscribers, cards, calls, handles, storeOps,
                  discarded, last >>

\* ContextMenu.getCompatibleNodeTypes
getCompatibleNodeTypes(sourceHandle) ==
  IF sourceHandle.handleType = "none" \/ sourceHandle.schema = Undefined
  THEN allNodeTypes
  ELSE IF sourceHandle.handleType = "source"
  THEN {t \in allNodeTypes : sourceHandle.schema \in cardInputSchemas(t)}
  ELSE {t \in allNodeTypes : sourceHandle.schema \in cardOutputSchemas(t)}

\* the timer addNode schedules when the menu carries a source handle
addNodeTimers(newNodeId) ==
  IF contextMenu.open /\ contextMenu.sourceHandle.handleType # "none"
  THEN << AddEdgeTimer(contextMenu.sourceHandle, newNodeId) >>
  ELSE << >>

\* what the inline onClose of the rendered ContextMenu does to the edges: it
\* reads removedEdges of the render that created it
onClose(es) == IF Len(removedEdges) > 0 THEN es \o removedEdges ELSE es

\* NodeToolbar.handleAddNode: addNode(type, position)
ToolbarAddNode(type, now) ==
  LET newNodeId == NowNodeId(now) IN
  /\ UserActs
  /\ type \in toolbarNodeTypes
  /\ Len(nodes) < MaxNodes
  /\ nextObj <= MaxEdgeObjs
  /\ timers' = timers \o addNodeTimers(newNodeId)
  /\ contextMenu' = NoMenu
  /\ removedEdges' = << >>
  /\ Commit(Append(nodes, [id |-> newNodeId, type |-> type]), edges, Here, FALSE)
  /\ ep' = NoEpisode
  /\ ReadClock(now)
  /\ UNCHANGED << auxVars, connectionInProgress, justOpenedContextMenu, flagTimer,
                  nextObj, handles, storeOps, discarded, last >>

\* ContextMenu.handleAddNode: onAddNode(type, ...) and then onClose()
MenuSelect(type, now) ==
  LET newNodeId == NowNodeId(now)
      es1 == onClose(edges)
  IN /\ UserActs
     /\ contextMenu.open
     /\ type \in getCompatibleNodeTypes(contextMenu.sourceHandle)
     /\ Len(nodes) < MaxNodes
     /\ nextObj <= MaxEdgeObjs
     /\ timers' = timers \o addNodeTimers(newNodeId)
     /\ contextMenu' = NoMenu
     /\ removedEdges' = << >>
     /\ Commit(Append(nodes, [id |-> newNodeId, type |-> type]), es1, Here,
               es1 # edges)
     /\ ep' = IF ep.phase = "menu" THEN [ep EXCEPT !.phase = "selected"]
              ELSE NoEpisode
     /\ ReadClock(now)
     /\ UNCHANGED << auxVars, connectionInProgress, justOpenedContextMenu, flagTimer,
                     nextObj, handles, storeOps, discarded, last >>

\* addNode: the input handle id chosen for a schema
TargetHandleFor(schema) ==
  CASE schema = "MODEL_3D" -> "model-input"
    [] schema = "SKYBOX_TEXTURE" -> "skybox-input"
    [] schema = "RENDERED_IMAGE" -> "rendered-image-input"
    [] schema = "ENHANCED_IMAGE" -> "enhanced-image-input"
    [] schema = "GENERATED_VIDEO" -> "video-input"
    [] schema = "TEXT" -> "text-input"
    [] OTHER -> ""

\* addNode: the output handle id chosen for a schema
SourceHandleFor(schema) ==
  CASE schema = "MODEL_3D" -> "model-output"
    [] schema = "SKYBOX_TEXTURE" -> "skybox-output"
    [] schema = "RENDERED_IMAGE" -> "render-output"
    [] schema = "ENHANCED_IMAGE" -> "enhanced-output"
    [] schema = "GENERATED_VIDEO" -> "video-output"
    [] schema = "TEXT" -> "text-output"
    [] OTHER -> ""

\* addNode: the edge synthesized between the drag's origin and the new node
SynthesizedEdge(sourceHandle, newNodeId, now, obj) ==
  IF sourceHandle.handleType = "source"
  THEN [id |-> NowEdgeId(now), source |-> sourceHandle.nodeId,
        sourceHandle |-> sourceHandle.handleId, target |-> newNodeId,
        targetHandle |-> TargetHandleFor(sourceHandle.schema), obj |-> obj]
  ELSE [id |-> NowEdgeId(now), source |-> newNodeId,
        sourceHandle |-> SourceHandleFor(sourceHandle.schema),
        target |-> sourceHandle.nodeId,
        targetHandle |-> sourceHandle.handleId, obj |-> obj]

\* the setTimeout(..., 0) callback of addNode
AddEdgeTimerFires(now) ==
  /\ timers # << >>
  /\ Head(timers).kind = "addEdge"
  /\ LET t == Head(timers)
         es1 == addEdge(SynthesizedEdge(t.sourceHandle, t.newNodeId, now, nextObj),
                        edges)
     IN /\ nextObj' = IF es1 # edges THEN nextObj + 1 ELSE nextObj
        /\ Commit(nodes, es1, Here, es1 # edges)
  /\ timers' = Tail(timers)
  /\ ReadClock(now)
  /\ UNCHANGED << auxVars, contextMenu, connectionInProgress, removedEdges,
                  justOpenedContextMenu, flagTimer, handles, steps,
                  storeOps, ep, discarded, last >>

\* ------------------------------------------------------------ card actions
\* SceneRendererCard.handleRender with a snapshot img
handleRender(i, img, now) ==
  LET cs1 == [cards EXCEPT ![i].lastRender = img,
                           ![i].rendered = Append(@, img)]
      st == updateNodeData([nd |-> nodeData, cards |-> cs1, calls |-> calls],
                           subscribers, nodes[i].id,
                           [f \in {"renderedImage"} |-> img], now)
  IN /\ CardActs
     /\ nodes[i].type = "sceneRenderer"
     /\ Commit(nodes, edges, st, TRUE)
     /\ last' = [NoLast EXCEPT !.op = "render", !.card = i, !.img = img,
                               !.node = nodes[i].id]
     /\ ReadClock(now)
     /\ UNCHANGED << auxVars, editorVars, nextObj, handles, storeOps, ep, discarded >>

\* SceneRendererCard.handleEnhanceWithAI
handleEnhanceWithAI(i, now) ==
  LET id == nodes[i].id
      newNodeId == AiEnhancedNodeId(now)
      newEdge == [id |-> EnhanceEdgeId(id, newNodeId), source |-> id,
                  sourceHandle |-> "render-output", target |-> newNodeId,
                  targetHandle |-> "rendered-image-input", obj |-> nextObj]
  IN /\ CardActs
     /\ nodes[i].type = "sceneRenderer"
     /\ cards[i].lastRender # NoImage
     /\ Len(nodes) < MaxNodes
     /\ nextObj <= MaxEdgeObjs
     /\ nextObj' = nextObj + 1
     /\ Commit(Append(nodes, [id |-> newNodeId, type |-> "aiEnhancedImage"]),
               Append(edges, newEdge), Here, TRUE)
     /\ ep' = NoEpisode
     /\ ReadClock(now)
     /\ UNCHANGED << auxVars, editorVars, handles, storeOps, discarded, last >>

\* the sequence s without its k-th element
RemoveAt(s, k) == SubSeq(s, 1, k - 1) \o SubSeq(s, k + 1, Len(s))

\* a completion whose failure paths skip the finally block
AfterEnhance_NoFinally(c, img, outcome) ==
  CASE outcome = "ok" ->
         [c EXCEPT !.enhancedImage = EnhancedUrl(img), !.isEnhancing = FALSE]
    [] outcome = "raise" ->
         [c EXCEPT !.lastProcessedImage = NoImage, !.failed = @ \cup {img}]
    [] OTHER -> [c EXCEPT !.failed = @ \cup {img}]

\* AIEnhancedImageCard.handleEnhance after its await: the try / catch / finally
\* for one outcome of enhanceSceneWithAI ("ok": success with an image url,
\* "fail": a result with success = false, "raise": a rejected promise)
AfterEnhance(c, img, outcome) ==
  CASE outcome = "ok" ->
         [c EXCEPT !.enhancedImage = EnhancedUrl(img), !.isEnhancing = FALSE]
    [] outcome = "raise" ->
         [c EXCEPT !.lastProcessedImage = NoImage, !.isEnhancing = FALSE,
                   !.failed = @ \cup {img}]
    [] OTHER -> [c EXCEPT !.isEnhancing = FALSE, !.failed = @ \cup {img}]

\* an edge of the active edge set feeds the rendered-image input of node i
FedBy(i) ==
  \E e \in Range(edges) :
     e.target = nodes[i].id /\ e.targetHandle = "rendered-image-input"

\* a pending enhanceSceneWithAI call of card i settles
EnhanceComplete(i, k, outcome) ==
  LET c == cards[i]
      img == c.inflight[k]
      now == clock + 1
      cs1 == [cards EXCEPT ![i].inflight = RemoveAt(@, k)]
      st1 == IF outcome = "ok"
             THEN updateNodeData([nd |-> nodeData, cards |-> cs1, calls |-> calls],
                                 subscribers, nodes[i].id,
                                 [f \in {"enhancedImage"} |-> EnhancedUrl(img)], now)
             ELSE [nd |-> nodeData, cards |-> cs1, calls |-> calls]
      st2 == [st1 EXCEPT !.cards[i] = AfterEnhance(@, img, outcome)]
  IN /\ k \in 1..Len(c.inflight)
     /\ Commit(nodes, edges, st2, outcome = "ok")
     /\ clock' = IF outcome = "ok" THEN now ELSE clock
     /\ last' = [NoLast EXCEPT !.op = "complete", !.card = i, !.img = img,
                               !.outcome = outcome, !.node = nodes[i].id,
                               !.callsBefore = Len(calls), !.ndBefore = nodeData,
                               !.cardBefore = cards[i], !.fed = FedBy(i)]
     /\ UNCHANGED << auxVars, editorVars, nextObj, handles, steps, storeOps,
                     ep, discarded >>

\* ------------------------------------------------------- producer cards
\* the user picks file k (of `size` bytes) in the file input of loader card i
FileUpload(i, k, size) ==
  /\ CardActs
  /\ nodes[i].type = "modelLoader"
  /\ ~cards[i].isLoading
  /\ cards[i].uploads < MaxUploads
  /\ cards' = [cards EXCEPT ![i] = [handleFileUpload(@, k, size)
                                     EXCEPT !.uploads = @ + 1]]
  /\ last' = [NoLast EXCEPT !.op = "upload", !.card = i, !.img = k,
                            !.size = size, !.node = nodes[i].id,
                            !.callsBefore = Len(calls), !.ndBefore = nodeData,
                            !.cardBefore = cards[i]]
  /\ UNCHANGED << auxVars, nodes, edges, editorVars, clock, nextObj, nodeData,
                  subscribers, probeVars, ep, discarded >>

\* loadModel of loader card i settles: the parsed model goes through
\* addModelToScene (which publishes it), a failure into the catch block
ParseReturns(i, outcome, now) ==
  LET c == cards[i]
      k == c.pendingFile
      cs1 == [cards EXCEPT ![i].pendingFile = NoFile, ![i].isLoading = FALSE]
      csOk == [cs1 EXCEPT ![i].currentModel = k, ![i].hasCustomModel = TRUE]
      csFail == [cs1 EXCEPT ![i].uploadError = "Failed to process the 3D model file.",
                            ![i].fileName = DefaultCube,
                            ![i].hasCustomModel = FALSE]
      st == IF outcome = "ok"
            THEN updateNodeData([nd |-> nodeData, cards |-> csOk, calls |-> calls],
                                subscribers, nodes[i].id,
                                [f \in {"model"} |-> k], now)
            ELSE [nd |-> nodeData, cards |-> csFail, calls |-> calls]
  IN /\ nodes[i].type = "modelLoader"
     /\ k # NoFile
     /\ now = clock + 1
     /\ Commit(nodes, edges, st, outcome = "ok")
     /\ clock' = IF outcome = "ok" THEN now ELSE clock
     /\ last' = [NoLast EXCEPT !.op = "parsed", !.card = i, !.img = k,
                               !.outcome = outcome, !.node = nodes[i].id,
                               !.callsBefore = Len(calls), !.ndBefore = nodeData,
                               !.cardBefore = cards[i]]
     /\ UNCHANGED << auxVars, editorVars, nextObj, handles, steps, storeOps,
                     ep, discarded >>

\* the URLs a skybox card publishes: the default tab's and a generated one
DefaultSkyboxUrl == 1
GeneratedSkyboxUrl == 2

\* SkyboxGeneratorCard.handleGenerate up to its await (the button is disabled
\* while isGenerating)
SkyboxGenerate(i) ==
  /\ CardActs
  /\ nodes[i].type = "skyboxGenerator"
  /\ ~cards[i].isGenerating
  /\ cards' = [cards EXCEPT ![i].isGenerating = TRUE]
  /\ last' = [NoLast EXCEPT !.op = "generate", !.card = i, !.node = nodes[i].id,
                            !.callsBefore = Len(calls), !.ndBefore = nodeData,
                            !.cardBefore = cards[i]]
  /\ UNCHANGED << auxVars, nodes, edges, editorVars, clock, nextObj, nodeData,
                  subscribers, probeVars, ep, discarded >>

\* generateImageWithAI of skybox card i settles
SkyboxReturns(i, outcome, now) ==
  LET cs1 == [cards EXCEPT ![i].isGenerating = FALSE]
      csOk == [cs1 EXCEPT ![i].previewImage = GeneratedSkyboxUrl]
      st == IF outcome = "ok"
            THEN updateNodeData([nd |-> nodeData, cards |-> csOk, calls |-> calls],
                                subscribers, nodes[i].id,
                                [f \in {"skyboxTexture"} |-> GeneratedSkyboxUrl], now)
            ELSE [nd |-> nodeData, cards |-> cs1, calls |-> calls]
  IN /\ nodes[i].type = "skyboxGenerator"
     /\ cards[i].isGenerating
     /\ now = clock + 1
     /\ Commit(nodes, edges, st, outcome = "ok")
     /\ clock' = IF outcome = "ok" THEN now ELSE clock
     /\ last' = [NoLast EXCEPT !.op = "generated", !.card = i,
                               !.outcome = outcome, !.node = nodes[i].id,
                               !.callsBefore = Len(calls), !.ndBefore = nodeData,
                               !.cardBefore = cards[i]]
     /\ UNCHANGED << auxVars, editorVars, nextObj, handles, steps, storeOps,
                     ep, discarded >>

\* SkyboxGeneratorCard.handleTabChange('default')
SkyboxDefaultTab(i, now) ==
  LET cs1 == [cards EXCEPT ![i].previewImage = DefaultSkyboxUrl]
      st == updateNodeData([nd |-> nodeData, cards |-> cs1, calls |-> calls],
                           subscribers, nodes[i].id,
                           [f \in {"skyboxTexture"} |-> DefaultSkyboxUrl], now)
  IN /\ CardActs
     /\ nodes[i].type = "skyboxGenerator"
     /\ Commit(nodes, edges, st, TRUE)
     /\ ReadClock(now)
     /\ last' = [NoLast EXCEPT !.op = "defaultTab", !.card = i, !.node = nodes[i].id,
                               !.callsBefore = Len(calls), !.ndBefore = nodeData,
                               !.cardBefore = cards[i]]
     /\ UNCHANGED << auxVars, editorVars, nextObj, handles, storeOps, ep, discarded >>

\* the URL of a generated video
GeneratedVideoUrl == 1

\* AIVideoGeneratorCard.handleGenerate up to its await
VideoGenerate(i) ==
  /\ CardActs
  /\ nodes[i].type = "aiVideoGenerator"
  /\ ~cards[i].isGenerating
  /\ cards' = [cards EXCEPT ![i].isGenerating = TRUE]
  /\ last' = [NoLast EXCEPT !.op = "generate", !.card = i, !.node = nodes[i].id,
                            !.callsBefore = Len(calls), !.ndBefore = nodeData,
                            !.cardBefore = cards[i]]
  /\ UNCHANGED << auxVars, nodes, edges, editorVars, clock, nextObj, nodeData,
                  subscribers, probeVars, ep, discarded >>

\* generateVideo of video generator card i settles; the card keeps the
\* video in its own state and publishes nothing
VideoReturns(i, outcome) ==
  /\ nodes[i].type = "aiVideoGenerator"
  /\ cards[i].isGenerating
  /\ cards' = [cards EXCEPT ![i].isGenerating = FALSE,
                            ![i].generatedVideo =
                               IF outcome = "ok" THEN GeneratedVideoUrl ELSE @]
  /\ last' = [NoLast EXCEPT !.op = "generated", !.card = i,
                            !.outcome = outcome, !.node = nodes[i].id,
                            !.callsBefore = Len(calls), !.ndBefore = nodeData,
                            !.cardBefore = cards[i]]
  /\ UNCHANGED << auxVars, nodes, edges, editorVars, clock, nextObj, nodeData,
                  subscribers, probeVars, steps, ep, discarded >>

\* ------------------------------------------------------------ store client
\* a client of the store API with callbacks 1..NumProbes
ProbeNodeIds == {InitialNodeId, NowNodeId(EpochNow)}

ProbeCallback(cb) == [kind |-> "probe", owner |-> cb, edge |-> << >>]

\* the payloads the client publishes: every partial record over two fields
ProbePayloads ==
  UNION {[F -> 1..2] : F \in SUBSET {"renderedImage", "timestamp"}}

\* subscribeToNode(n, callback cb); the returned unsubscribe function is kept
\* as a handle that remembers its registration and whether it was called
ProbeSubscribe(n, cb) ==
  /\ storeOps < MaxStoreOps
  /\ storeOps' = storeOps + 1
  /\ subscribers' = subscribeToNode(subscribers, n, ProbeCallback(cb))
  /\ handles' = handles \cup {[nodeId |-> n, cb |-> cb, reg |-> storeOps,
                                used |-> FALSE]}
  /\ last' = [NoLast EXCEPT !.op = "subscribe", !.node = n, !.card = cb,
                            !.callsBefore = Len(calls),
                            !.subsBefore = SubscribersOf(subscribers, n),
                            !.ndBefore = nodeData]
  /\ UNCHANGED << auxVars, nodes, edges, editorVars, clock, nextObj, nodeData, cards,
                  calls, steps, ep, discarded >>

\* a call of the unsubscribe function h
ProbeUnsubscribe(h) ==
  /\ storeOps < MaxStoreOps
  /\ storeOps' = storeOps + 1
  /\ subscribers' = unsubscribe(subscribers, h.nodeId, ProbeCallback(h.cb))
  /\ handles' = (handles \ {h}) \cup {[h EXCEPT !.used = TRUE]}
  /\ last' = [NoLast EXCEPT !.op = "unsubscribe", !.node = h.nodeId, !.card = h.cb,
                            !.callsBefore = Len(calls),
                            !.subsBefore = SubscribersOf(subscribers, h.nodeId),
                            !.ndBefore = nodeData, !.used = h.used]
  /\ UNCHANGED << auxVars, nodes, edges, editorVars, clock, nextObj, nodeData, cards,
                  calls, steps, ep, discarded >>

\* updateNodeData(n, data)
ProbePublish(n, data, now) ==
  LET st == updateNodeData(Here, subscribers, n, data, now) IN
  /\ storeOps < MaxStoreOps
  /\ storeOps' = storeOps + 1
  /\ nodeData' = st.nd
  /\ calls' = st.calls
  /\ cards' = st.cards
  /\ last' = [NoLast EXCEPT !.op = "publish", !.node = n, !.data = data,
                            !.callsBefore = Len(calls),
                            !.subsBefore = SubscribersOf(subscribers, n),
                            !.ndBefore = nodeData]
  /\ ReadClock(now)
  /\ UNCHANGED << auxVars, nodes, edges, editorVars, nextObj, subscribers, handles,
                  steps, ep, discarded >>

\* ------------------------------------------------------ service requests
\* a card calls one of the service functions
ServiceRequest(fn, isDevMode, provider, geminiApiKey, replicateApiKey, dataUrl) ==
  LET r == [NoRequest EXCEPT !.fn = fn, !.isDevMode = isDevMode,
                             !.provider = provider,
                             !.geminiApiKey = geminiApiKey,
                             !.replicateApiKey = replicateApiKey,
                             !.dataUrl = dataUrl, !.pc = "called"]
  IN /\ svc.pc = "idle"
     /\ svc' = CASE fn = "generateImageWithAI" -> generateImageWithAI(r)
                 [] fn = "enhanceSceneWithAI" -> enhanceSceneWithAI(r)
                 [] fn = "generateVideoFromImage" -> generateVideoFromImage(r)
                 [] OTHER -> [r EXCEPT !.pc = "delay"]
     /\ UNCHANGED << nodes, edges, editorVars, clock, nextObj, nodeData,
                     subscribers, cards, probeVars, steps, ep, discarded, last >>

\* simulateAPIDelay of geminiAPI.ts elapsed
DelayElapsed ==
  /\ svc.pc = "delay"
  /\ svc' = MockedGemini(svc)
  /\ UNCHANGED << nodes, edges, editorVars, clock, nextObj, nodeData,
                  subscribers, cards, probeVars, steps, ep, discarded, last >>

\* mockEnhanceSceneWithAI / mockGenerateVideoFromImage settle
MockReturns(ok) ==
  /\ svc.pc = "mock"
  /\ svc' = Resolve(svc, ok, IF ok THEN "" ELSE "Mock failed")
  /\ UNCHANGED << nodes, edges, editorVars, clock, nextObj, nodeData,
                  subscribers, cards, probeVars, steps, ep, discarded, last >>

GeminiResponses == {"image", "notOk", "noCandidates", "noImage"}

\* the fetch of enhanceWithGemini / generateWithGemini returned
GeminiReturns(resp) ==
  /\ svc.pc = "gemini"
  /\ svc' = LET r1 == [svc EXCEPT !.network = @ + 1] IN
            IF resp = "image" THEN Resolve(r1, TRUE, "")
            ELSE Resolve(r1, FALSE, "Gemini API error")
  /\ UNCHANGED << nodes, edges, editorVars, clock, nextObj, nodeData,
                  subscribers, cards, probeVars, steps, ep, discarded, last >>

\* the fetch of uploadImageToReplicate returned
UploadReturns(ok) ==
  /\ svc.pc = "upload"
  /\ svc' = LET r1 == [svc EXCEPT !.network = @ + 1] IN
            IF ok THEN [r1 EXCEPT !.pc = "create"]
            ELSE Resolve(r1, FALSE, "Failed to upload image")
  /\ UNCHANGED << nodes, edges, editorVars, clock, nextObj, nodeData,
                  subscribers, cards, probeVars, steps, ep, discarded, last >>

\* the fetch that creates the prediction returned
CreateReturns(ok) ==
  /\ svc.pc = "create"
  /\ svc' = LET r1 == [svc EXCEPT !.network = @ + 1] IN
            IF ok THEN [r1 EXCEPT !.pc = "poll", !.pollCount = 0]
            ELSE Resolve(r1, FALSE, "Replicate API error")
  /\ UNCHANGED << nodes, edges, editorVars, clock, nextObj, nodeData,
                  subscribers, cards, probeVars, steps, ep, discarded, last >>

PollStatuses ==
  {"starting", "processing", "succeeded", "failed", "canceled", "notOk"}

\* the 5 s wait elapsed and the poll fetch returned
PollReturns(status) ==
  /\ svc.pc = "poll"
  /\ svc' = AfterPoll(svc, status)
  /\ UNCHANGED << nodes, edges, editorVars, clock, nextObj, nodeData,
                  subscribers, cards, probeVars, steps, ep, discarded, last >>

\* ---------------------------------------------------------- specifications
Outcomes == {"ok", "fail", "raise"}

\* the readings of Date.now() of events that are at least a millisecond apart
Readings == {clock + 1}

\* the readings of Date.now() of events that may fall into one millisecond
SameMsReadings == {clock, clock + 1}

\* the connection protocol of the editor; enhancement calls stay pending
Next ==
  \/ \E h \in HandlesOnCanvas : onConnectStart(h)
  \/ \E h \in HandlesOnCanvas : DropOnHandle(h)
  \/ DropOnNode
  \/ DropOnCanvas
  \/ RestoreTimerFires
  \/ FlagTimerFires
  \/ onPaneClick
  \/ onContextMenu
  \/ \E type \in toolbarNodeTypes, now \in Readings : ToolbarAddNode(type, now)
  \/ \E type \in allNodeTypes, now \in Readings : MenuSelect(type, now)
  \/ \E now \in Readings : AddEdgeTimerFires(now)

Spec == Init /\ [][Next]_vars

\* the store API driven by a client with probe callbacks
NextStore ==
  \/ \E n \in ProbeNodeIds, cb \in 1..NumProbes : ProbeSubscribe(n, cb)
  \/ \E h \in handles : ProbeUnsubscribe(h)
  \/ \E n \in ProbeNodeIds, data \in ProbePayloads, now \in Readings :
        ProbePublish(n, data, now)

SpecStore == Init /\ [][NextStore]_vars

\* the render -> AI enhancement pipeline: renderers from the toolbar, manual
\* renders, "Enhance with AI", the enhancement calls settling, and drags that
\* detach the edges of a port and end over a node body
NextFlow ==
  \/ \E now \in Readings : ToolbarAddNode("sceneRenderer", now)
  \/ \E i \in 1..Len(nodes), img \in 1..NumImages, now \in Readings :
        handleRender(i, img, now)
  \/ \E i \in 1..Len(nodes), now \in Readings : handleEnhanceWithAI(i, now)
  \/ \E i \in 1..Len(nodes), outcome \in Outcomes :
        \E k \in 1..Len(cards[i].inflight) : EnhanceComplete(i, k, outcome)
  \/ \E h \in HandlesOnCanvas : onConnectStart(h)
  \/ DropOnNode
  \/ RestoreTimerFires

SpecFlow == Init /\ [][NextFlow]_vars

\* the creations of nodes and edges, with readings of Date.now() that may
\* repeat the reading before them: toolbar and menu additions, the deferred
\* edge of a menu addition, renders and "Enhance with AI"
NextIds ==
  \/ \E type \in toolbarNodeTypes, now \in SameMsReadings : ToolbarAddNode(type, now)
  \/ onContextMenu
  \/ \E h \in HandlesOnCanvas : onConnectStart(h)
  \/ DropOnCanvas
  \/ FlagTimerFires
  \/ \E type \in allNodeTypes, now \in SameMsReadings : MenuSelect(type, now)
  \/ \E now \in SameMsReadings : AddEdgeTimerFires(now)
  \/ \E i \in 1..Len(nodes), img \in 1..NumImages, now \in SameMsReadings :
        handleRender(i, img, now)
  \/ \E i \in 1..Len(nodes), now \in SameMsReadings : handleEnhanceWithAI(i, now)

SpecIds == Init /\ [][NextIds]_vars

\* the service functions, one request at a time; every pending await settles
ServiceReturns ==
  \/ DelayElapsed
  \/ \E ok \in BOOLEAN : MockReturns(ok)
  \/ \E resp \in GeminiResponses : GeminiReturns(resp)
  \/ \E ok \in BOOLEAN : UploadReturns(ok)
  \/ \E ok \in BOOLEAN : CreateReturns(ok)
  \/ \E status \in PollStatuses : PollReturns(status)

NextService ==
  \/ \E fn \in ServiceFunctions, isDevMode \in BOOLEAN, provider \in Providers,
        geminiApiKey \in BOOLEAN, replicateApiKey \in BOOLEAN, dataUrl \in BOOLEAN :
        ServiceRequest(fn, isDevMode, provider, geminiApiKey, replicateApiKey, dataUrl)
  \/ DelayElapsed
  \/ \E ok \in BOOLEAN : MockReturns(ok)
  \/ \E resp \in GeminiResponses : GeminiReturns(resp)
  \/ \E ok \in BOOLEAN : UploadReturns(ok)
  \/ \E ok \in BOOLEAN : CreateReturns(ok)
  \/ \E status \in PollStatuses : PollReturns(status)

SpecService == Init /\ [][NextService]_vars /\ WF_vars(ServiceReturns)

\* a loader wired to a renderer next to the render -> enhancement pipeline:
\* renderers from the toolbar, drags that end on a handle, file uploads and
\* their parses, manual renders, "Enhance with AI" and the enhancement calls
\* settling
NextScene ==
  \/ \E now \in Readings : ToolbarAddNode("sceneRenderer", now)
  \/ \E h \in HandlesOnCanvas : onConnectStart(h)
  \/ \E h \in HandlesOnCanvas : DropOnHandle(h)
  \/ RestoreTimerFires
  \/ \E i \in 1..Len(nodes), k \in 1..Len(FileNames), size \in FileSizes :
        FileUpload(i, k, size)
  \/ \E i \in 1..Len(nodes), outcome \in Outcomes, now \in Readings :
        ParseReturns(i, outcome, now)
  \/ \E i \in 1..Len(nodes), img \in 1..NumImages, now \in Readings :
        handleRender(i, img, now)
  \/ \E i \in 1..Len(nodes), now \in Readings : handleEnhanceWithAI(i, now)
  \/ \E i \in 1..Len(nodes), outcome \in Outcomes :
        \E k \in 1..Len(cards[i].inflight) : EnhanceComplete(i, k, outcome)

SpecScene == Init /\ [][NextScene]_vars

\* the producer cards next to the render -> enhancement pipeline: file
\* uploads and parses of the model loader, skybox generations, renders,
\* "Enhance with AI" and the enhancement calls settling, within MaxCardSteps
\* user events
NextCards ==
  \/ \E type \in {"skyboxGenerator", "sceneRenderer"}, now \in Readings :
        steps < MaxCardSteps /\ ToolbarAddNode(type, now)
  \/ \E i \in 1..Len(nodes), k \in 1..Len(FileNames), size \in FileSizes :
        steps < MaxCardSteps /\ FileUpload(i, k, size)
  \/ \E i \in 1..Len(nodes), outcome \in Outcomes, now \in Readings :
        ParseReturns(i, outcome, now)
  \/ \E i \in 1..Len(nodes) : steps < MaxCardSteps /\ SkyboxGenerate(i)
  \/ \E i \in 1..Len(nodes), outcome \in Outcomes, now \in Readings :
        SkyboxReturns(i, outcome, now)
  \/ \E i \in 1..Len(nodes), now \in Readings :
        steps < MaxCardSteps /\ SkyboxDefaultTab(i, now)
  \/ steps < MaxCardSteps /\ onContextMenu
  \/ \E now \in Readings : steps < MaxCardSteps /\ MenuSelect("aiVideoGenerator", now)
  \/ \E i \in 1..Len(nodes) : steps < MaxCardSteps /\ VideoGenerate(i)
  \/ \E i \in 1..Len(nodes), outcome \in Outcomes : VideoReturns(i, outcome)
  \/ \E i \in 1..Len(nodes), img \in 1..NumImages, now \in Readings :
        steps < MaxCardSteps /\ handleRender(i, img, now)
  \/ \E i \in 1..Len(nodes), now \in Readings :
        steps < MaxCardSteps /\ handleEnhanceWithAI(i, now)
  \/ \E i \in 1..Len(nodes), outcome \in Outcomes :
        \E k \in 1..Len(cards[i].inflight) : EnhanceComplete(i, k, outcome)

SpecCards == Init /\ [][NextCards]_vars

\* ------------------------------------------------------------- properties
\* the editor is Idle: no drag in progress and no node-creation menu open
Idle == connectionInProgress.handleType = "none" /\ ~contextMenu.open

\* the handle (node id, handle id) of the given side on the canvas, if any
PortsAt(nodeId, handleId, side) ==
  {h \in HandlesOnCanvas :
     h.nodeId = nodeId /\ h.handleId = handleId /\ h.handleType = side}

\* an edge from an output port to an input port of the same schema
EdgeValid(e) ==
  \E s \in PortsAt(e.source, e.sourceHandle, "source"),
     t \in PortsAt(e.target, e.targetHandle, "target") : s.schema = t.schema

\* a connection between an output port and an input port of different schemas
Mismatched(conn) ==
  \E s \in PortsAt(conn.source, conn.sourceHandle, "source"),
     t \in PortsAt(conn.target, conn.targetHandle, "target") : s.schema # t.schema

\* how many times x occurs in the sequence s
Count(s, x) == Cardinality({i \in 1..Len(s) : s[i] = x})

\* C1: in every reachable state every edge of the active edge set goes from
\* an output port to an input port whose schema equals the source port's.
C1_EveryEdgeSchemaValid == \A e \in Range(edges) : EdgeValid(e)

\* C2: after a drag from a connected input port was released over empty
\* canvas and the menu was dismissed by a pane click, the active edge set
\* equals the edge set before the drag and the editor is Idle.
C2_DismissRestoresEdges ==
  (ep.phase = "dismissed" /\ ep.origin.handleType = "target"
     /\ ep.detached # << >>)
  => (Range(edges) = Range(ep.edges0) /\ Idle)

\* C3: after a node type was selected in a menu opened by a drag that
\* detached edges, the editor is Idle, exactly one node and exactly one edge
\* (between the origin port and the new node) were added, and none of the
\* detached edges is in the active edge set.
C3_SelectDiscardsBuffer ==
  (ep.phase = "selected" /\ ep.detached # << >> /\ timers = << >>)
  => /\ Idle
     /\ Len(nodes) = ep.nodes0 + 1
     /\ Cardinality(Range(edges) \ Range(ep.edges0)) = 1
     /\ \A e \in Range(edges) \ Range(ep.edges0) :
          /\ AtHandle(e, ep.origin)
          /\ nodes[Len(nodes)].id \in {e.source, e.target}
     /\ Range(ep.detached) \cap Range(edges) = {}

\* C4: a publish updateNodeData(N, P) invokes a callback that is registered
\* exactly once for N exactly once, with an entry that has every field of P
\* (each payload field with P's value; timestamp is the store's stamp).
C4_PublishNotifiesOnce ==
  last.op = "publish" =>
    \A cb \in 1..NumProbes :
      Count(last.subsBefore, ProbeCallback(cb)) = 1 =>
        LET mine == SelectSeq(SubSeq(calls, last.callsBefore + 1, Len(calls)),
                              LAMBDA c : c.cb = cb)
        IN /\ Len(mine) = 1
           /\ DOMAIN last.data \subseteq DOMAIN mine[1].entry
           /\ \A f \in DOMAIN last.data \ {"timestamp"} :
                mine[1].entry[f] = last.data[f]

\* C4 witness: a publish of a payload with a renderedImage to a node that
\* has a once-registered subscriber and already held another renderedImage.
C4_Witness ==
  /\ last.op = "publish"
  /\ "renderedImage" \in DOMAIN last.data
  /\ \E cb \in 1..NumProbes :
       /\ Count(last.subsBefore, ProbeCallback(cb)) = 1
       /\ \E k \in 1..last.callsBefore :
            /\ calls[k].cb = cb
            /\ FieldOf(calls[k].entry, "renderedImage")
                 \notin {0, last.data["renderedImage"]}
       /\ \E k \in (last.callsBefore + 1)..Len(calls) : calls[k].cb = cb

\* C5: for an AI Enhanced Image card the number of enhancement computations
\* started for one image value is at most one as long as none of them failed.
C5_AtMostOneStartPerImage ==
  \A i \in 1..Len(cards) : \A img \in 1..NumImages :
     img \notin cards[i].failed => Count(cards[i].started, img) <= 1

\* C6: when an enhancement computation for image I has failed (a failure
\* result or a raised error) the card's dedup marker no longer holds I.
C6_FailureClearsMarker ==
  (last.op = "complete" /\ last.outcome \in {"fail", "raise"})
  => cards[last.card].lastProcessedImage # last.img

\* C7: in the pipeline render-output -> rendered-image-input, once the AI
\* Enhanced Image card has nothing pending, the image the renderer published
\* last (a new one: published once) had exactly one enhancement started.
C7_OneStartPerRender ==
  \A e \in Range(edges) : \A r, a \in 1..Len(nodes) :
     (/\ nodes[r].id = e.source /\ nodes[a].id = e.target
      /\ nodes[r].type = "sceneRenderer" /\ nodes[a].type = "aiEnhancedImage"
      /\ e.sourceHandle = "render-output"
      /\ e.targetHandle = "rendered-image-input"
      /\ ~cards[a].isEnhancing /\ cards[a].inflight = << >>
      /\ cards[r].lastRender # NoImage
      /\ Count(cards[r].rendered, cards[r].lastRender) = 1)
     => Count(cards[a].started, cards[r].lastRender) = 1

\* C8: after a connection attempt between an output and an input of
\* different schemas the edge set equals the one before the attempt and the
\* editor is Idle.
C8_MismatchRejected ==
  (ep.phase = "connected" /\ Mismatched(ep.conn) /\ timers = << >>)
  => (Range(edges) = Range(ep.edges0) /\ Idle)

\* C9: in every reachable state each input port (target node id, target
\* handle id) has at most one edge in the active edge set.
C9_OneEdgePerInput ==
  \A i, j \in 1..Len(edges) :
     (edges[i].target = edges[j].target
        /\ edges[i].targetHandle = edges[j].targetHandle) => i = j

\* C10: an edge detached by a drag that ended in a successful connection is
\* never in the active edge set afterwards, although the deferred restore
\* of onConnectEnd runs after onConnect.
C10_DiscardedNeverRestored == \A e \in discarded : e \notin Range(edges)

\* C10 witness: a drag that detached edges ended in onConnect and its
\* deferred restore callback has run.
C10_Witness ==
  /\ ep.phase = "connected"
  /\ ep.detached # << >>
  /\ Range(ep.detached) \subseteq discarded
  /\ timers = << >>
  /\ \E e \in Range(edges) : AtHandle(e, ep.origin)

\* C11: a drag that ends over a node body is a net no-op: once the deferred
\* restore has run, the active edge set equals the edge set before the drag,
\* whatever happened in the editor before.
C11_CancelledDragIsNoOp ==
  (ep.phase = "cancelled" /\ timers = << >>)
  => Range(edges) = Range(ep.edges0)

\* the node types whose card declares a port of the given schema on the side
\* opposite to `side`
TypesDeclaring(schema, side) ==
  {t \in nodeTypes :
     \E p \in Handles(t) : p.handleType # side /\ p.schema = schema}

\* C12: the menu opened by a drag from a declared port lists exactly the node
\* types whose card declares a port of the origin's schema and of the
\* complementary direction.
C12_MenuListsDeclaredTypes ==
  (contextMenu.open /\ contextMenu.sourceHandle.handleType # "none")
  => \A o \in PortsAt(contextMenu.sourceHandle.nodeId,
                      contextMenu.sourceHandle.handleId,
                      contextMenu.sourceHandle.handleType) :
        getCompatibleNodeTypes(contextMenu.sourceHandle)
          = TypesDeclaring(o.schema, o.handleType)

\* C13: subscribeToNode(N, cb) invokes no callback, even when N already has
\* an entry; a callback is invoked only by a publish to a node it is
\* registered for at the time of the publish.
C13_NoReplayAtSubscribe ==
  [][/\ last'.op = "subscribe" => calls' = calls
     /\ calls' # calls =>
          /\ last'.op = "publish"
          /\ \A k \in (Len(calls) + 1)..Len(calls') :
               ProbeCallback(calls'[k].cb)
                 \in Range(SubscribersOf(subscribers, last'.node))]_vars

\* C13 witness: a callback was registered for a node that already had a
\* published entry, and the registration invoked nothing.
C13_Witness ==
  /\ last.op = "subscribe"
  /\ last.node \in DOMAIN nodeData
  /\ "renderedImage" \in DOMAIN nodeData[last.node]
  /\ Len(calls) = last.callsBefore

\* the payload fields of an entry: all but the store's timestamp
PayloadFields(entry) == DOMAIN entry \ {"timestamp"}

\* C14: getNodeData(N) is absent while nothing was published to N; a publish
\* updateNodeData(N, P) makes N's entry the field by field merge of the
\* entry before with P (P's fields win, the other fields are kept), and no
\* store operation changes the entry of another node.
C14_EntryIsMergeOfPublishes ==
  /\ \A n \in ProbeNodeIds :
       n \notin DOMAIN nodeData => getNodeData(nodeData, n) = AbsentEntry
  /\ last.op = "none" => DOMAIN nodeData = {}
  /\ last.op \in {"subscribe", "unsubscribe"} => nodeData = last.ndBefore
  /\ last.op = "publish" =>
       LET prev == getNodeData(last.ndBefore, last.node)
           entry == getNodeData(nodeData, last.node)
       IN /\ DOMAIN nodeData = DOMAIN last.ndBefore \cup {last.node}
          /\ \A k \in DOMAIN last.ndBefore \ {last.node} :
               nodeData[k] = last.ndBefore[k]
          /\ PayloadFields(entry) = PayloadFields(prev) \cup PayloadFields(last.data)
          /\ \A f \in PayloadFields(last.data) : entry[f] = last.data[f]
          /\ \A f \in PayloadFields(prev) \ PayloadFields(last.data) :
               entry[f] = prev[f]

\* C14 witness: a publish to a node that kept a field of its earlier entry
\* which the payload did not mention, while another node has an entry too.
C14_Witness ==
  /\ last.op = "publish"
  /\ last.node \in DOMAIN last.ndBefore
  /\ "renderedImage" \in DOMAIN last.ndBefore[last.node]
  /\ "renderedImage" \notin DOMAIN last.data
  /\ nodeData[last.node]["renderedImage"]
       = last.ndBefore[last.node]["renderedImage"]
  /\ \E k \in DOMAIN nodeData : k # last.node

\* C15: at most one enhancement computation of an AI Enhanced Image card is
\* in flight at any time, and the card's busy flag says whether one is.
C15_AtMostOneInFlight ==
  \A i \in 1..Len(cards) :
     /\ Len(cards[i].inflight) <= 1
     /\ cards[i].isEnhancing <=> cards[i].inflight # << >>

\* C15 witness: an enhancement is in flight while the renderer connected to
\* the card has already published a different image.
C15_Witness ==
  \E e \in Range(edges) : \E r, a \in 1..Len(nodes) :
     /\ nodes[r].id = e.source /\ nodes[a].id = e.target
     /\ e.targetHandle = "rendered-image-input"
     /\ Len(cards[a].inflight) = 1
     /\ FieldOf(getNodeData(nodeData, nodes[r].id), "renderedImage")
          \notin {NoImage, cards[a].inflight[1]}

\* C16: when an enhancement of an AI Enhanced Image card has completed and
\* the renderer connected to its rendered-image input has meanwhile
\* published a different image, the card has started an enhancement of that
\* image (no further publish being needed).
C16_LatestImageEnhancedAfterCompletion ==
  last.op = "complete" =>
    \A e \in Range(edges) : \A r \in 1..Len(nodes) :
       LET img == FieldOf(getNodeData(nodeData, nodes[r].id), "renderedImage") IN
       (/\ nodes[r].id = e.source
        /\ nodes[last.card].id = e.target
        /\ e.targetHandle = "rendered-image-input"
        /\ img \notin {NoImage, last.img})
       => Count(cards[last.card].started, img) >= 1

\* C17: a call of an unsubscribe function removes exactly one registration,
\* the one that produced it: the first call lowers the number of
\* registrations of its callback on its node by one, a later call lowers
\* nothing, and the registrations of every other callback and of every other
\* node stay as they were.
C17_UnsubscribeRemovesOwnRegistration ==
  last.op = "unsubscribe" =>
    LET before == last.subsBefore
        after == SubscribersOf(subscribers, last.node)
        own == ProbeCallback(last.card)
    IN /\ \A c \in Range(before) \cup Range(after) :
            Count(after, c) =
              IF c = own /\ ~last.used THEN Count(before, c) - 1
                                       ELSE Count(before, c)
       /\ nodeData = last.ndBefore

\* C18: a publish to a node with several subscribers invokes them in the
\* order of their registration, each once and each with the same argument,
\* the merged entry the store then holds for the node.
C18_NotifiesInRegistrationOrder ==
  last.op = "publish" =>
    /\ Len(calls) = last.callsBefore + Len(last.subsBefore)
    /\ \A k \in 1..Len(last.subsBefore) :
         calls[last.callsBefore + k] =
           [cb |-> last.subsBefore[k].owner, entry |-> nodeData[last.node]]

\* C18 witness: a publish to a node on which two different callbacks were
\* registered, the higher-numbered one first.
C18_Witness ==
  /\ last.op = "publish"
  /\ Len(last.subsBefore) >= 2
  /\ last.subsBefore[1].owner > last.subsBefore[2].owner
  /\ Len(calls) >= last.callsBefore + 2

\* the registrations card i holds on node id k, in registration order
RegistrationsOf(i, k) ==
  SelectSeq(SubscribersOf(subscribers, k),
            LAMBDA cb : cb.kind \in {"ai", "sr"} /\ cb.owner = i)

\* the edges of the active edge set from node id k into node i, in order
EdgesInto(i, k) ==
  SelectSeq(edges, LAMBDA e : e.target = nodes[i].id /\ e.source = k)

\* C19: in every state every card's registrations on every node id are, one
\* for one and in order, the edges of the active edge set that go from that
\* node into the card's node: one registration per incoming edge of a
\* consumer, and none on the source of a detached or removed edge.
C19_SubscriptionsMatchIncomingEdges ==
  \A i \in 1..Len(nodes) :
    \A k \in DOMAIN subscribers \cup {e.source : e \in Range(edges)} :
       LET regs == RegistrationsOf(i, k)
           into == IF nodes[i].type \in ConsumerTypes THEN EdgesInto(i, k) ELSE << >>
       IN /\ Len(regs) = Len(into)
          /\ \A j \in 1..Len(regs) : regs[j].edge = into[j]

\* C19 witness: a drag has detached an edge that went into a consumer, and
\* the consumer holds no registration on that edge's source any more.
C19_Witness ==
  /\ ep.phase = "dragging"
  /\ \E j \in 1..Len(ep.detached) : \E i \in 1..Len(nodes) :
        /\ nodes[i].type \in ConsumerTypes
        /\ ep.detached[j].target = nodes[i].id
        /\ ep.detached[j] \notin Range(edges)
        /\ RegistrationsOf(i, ep.detached[j].source) = << >>

\* C20: the ids of the nodes on the canvas are pairwise distinct and the ids
\* of the edges of the active edge set are pairwise distinct.
C20_IdsPairwiseDistinct ==
  /\ \A i, j \in 1..Len(nodes) : nodes[i].id = nodes[j].id => i = j
  /\ \A i, j \in 1..Len(edges) : edges[i].id = edges[j].id => i = j

\* the provider key a service function needs
RequiredKeyPresent(r) ==
  IF r.fn \in {"generateVideoFromImage", "generateVideo"}
  THEN r.replicateApiKey ELSE r.geminiApiKey

\* C21: a request made outside dev mode and outside the mock provider while
\* the key it needs is absent resolves with success = false and a reason,
\* and issues no network call at any point.
C21_MissingKeyFailsWithoutNetwork ==
  (svc.fn # "none" /\ ~svc.isDevMode /\ svc.provider # "mock"
     /\ ~RequiredKeyPresent(svc))
  => /\ svc.network = 0
     /\ svc.pc = "done" => (~svc.success /\ svc.error # "")

\* the verdict of the poll loop, given the status of the latest poll
PollVerdictHolds ==
  /\ svc.polls <= maxPolls
  /\ svc.pc = "poll" =>
       /\ svc.polls < maxPolls
       /\ svc.lastStatus \in {"none", "starting", "processing"}
  /\ (svc.pc = "done" /\ svc.polls > 0) =>
       CASE svc.lastStatus = "succeeded" -> svc.success
         [] svc.lastStatus \in {"failed", "canceled", "notOk"} ->
              ~svc.success /\ svc.error # "Video generation timed out"
         [] OTHER -> /\ svc.polls = maxPolls
                     /\ ~svc.success
                     /\ svc.error = "Video generation timed out"

\* C22: the poll loop of a video generation issues at most 60 polls, ends
\* with success at the first poll that reports succeeded, with failure at the
\* first poll that reports failed or canceled or is not OK, with a timeout
\* failure when 60 polls reported no terminal status, and, every network call
\* returning, always ends.
C22_PollingTerminates ==
  /\ []PollVerdictHolds
  /\ (svc.pc = "poll") ~> (svc.pc = "done")

\* C22 witness: a request that timed out after its 60th poll.
C22_Witness ==
  /\ svc.pc = "done"
  /\ svc.polls = maxPolls
  /\ svc.lastStatus = "processing"
  /\ svc.error = "Video generation timed out"

\* the file's name ends in a dot followed by one of the four allowed
\* extensions, in either case
AllowedExtension(name) ==
  /\ Len(name) >= 2
  /\ name[Len(name) - 1] = "."
  /\ name[Len(name)] \in {"glb", "GLB", "gltf", "obj", "stl"}

\* C23: an upload of a file whose extension is not allowed or whose size
\* exceeds 50 MB records an error on the loader and leaves its file name,
\* loading flag, current model and the store as they were (no parse is
\* pending); an upload of a file with an allowed extension and at most 50 MB
\* is taken for parsing.
C23_BadFileRejectedBeforeParsing ==
  last.op = "upload" =>
    LET c == cards[last.card]
        b == last.cardBefore
    IN IF ~AllowedExtension(FileNames[last.img]) \/ last.size > 50 * 1024 * 1024
       THEN /\ c.uploadError # ""
            /\ c = [b EXCEPT !.uploadError = c.uploadError, !.uploads = c.uploads]
            /\ c.pendingFile = NoFile
            /\ nodeData = last.ndBefore
            /\ Len(calls) = last.callsBefore
       ELSE /\ c.isLoading /\ c.pendingFile = last.img /\ c.fileName = last.img
            /\ c.uploadError = ""

\* the computations of a card that have not settled yet
Pending(c) ==
  Len(c.inflight) + (IF c.pendingFile # NoFile THEN 1 ELSE 0)
                  + (IF c.isGenerating THEN 1 ELSE 0)

\* C24: a step in which a computation of a card (AI enhancement, skybox
\* generation, video generation, model parsing) settles with a failure, returned or raised,
\* leaves the store, the subscriber lists, the probe callbacks' log and every
\* other card as they were, and leaves the card with no in-progress flag set.
C24_FailureLeavesStoreUnchanged ==
  [][\A i \in 1..Len(cards) :
       (Pending(cards'[i]) < Pending(cards[i]) /\ last'.outcome \in {"fail", "raise"})
       => /\ nodeData' = nodeData
          /\ subscribers' = subscribers
          /\ calls' = calls
          /\ Len(cards') = Len(cards)
          /\ \A j \in 1..Len(cards) : j # i => cards'[j] = cards[j]
          /\ ~cards'[i].isEnhancing
          /\ ~cards'[i].isLoading
          /\ ~cards'[i].isGenerating]_vars

\* C24 witness: the parse of a second file failed on a loader whose first
\* model is in the store.
C24_Witness ==
  /\ last.op = "parsed"
  /\ last.outcome \in {"fail", "raise"}
  /\ "model" \in DOMAIN getNodeData(nodeData, last.node)
  /\ nodeData = last.ndBefore
  /\ ~cards[last.card].isLoading

\* C25: the result of an enhancement that settles while no edge feeds the
\* card's rendered-image input is ignored: nothing is published and the
\* card's enhanced image stays what it was.
C25_AbandonedResultIgnored ==
  (last.op = "complete" /\ ~last.fed)
  => /\ nodeData = last.ndBefore
     /\ cards[last.card].enhancedImage = last.cardBefore.enhancedImage

\* the edges addNode synthesized (ids `edge-${Date.now()}`)
SynthesizedEdges ==
  {e \in Range(edges) : e.id.pfx = "edge-" /\ e.id.a = NoNodeId}

\* C26: after a node type was selected in the menu a drag opened, the edge
\* synthesized for the new node joins two ports their cards declare, an
\* output to an input of the same schema.
C26_SynthesizedEdgeUsesDeclaredPorts ==
  ep.phase = "selected" =>
    \A e \in SynthesizedEdges :
       nodes[Len(nodes)].id \in {e.source, e.target}
       => /\ PortsAt(e.source, e.sourceHandle, "source") # {}
          /\ PortsAt(e.target, e.targetHandle, "target") # {}
          /\ \A o \in PortsAt(e.source, e.sourceHandle, "source") :
               \A t \in PortsAt(e.target, e.targetHandle, "target") :
                  o.schema = t.schema

\* C27: while a drag is in progress, the edges that were attached to its
\* origin port are out of the active edge set exactly when the origin is an
\* input port or an output port with one connection; a drag from an output
\* port with two or more connections has left the active edge set as it was.
C27_FanOutNotDetached ==
  ep.phase = "dragging" =>
    LET atOrigin == SelectSeq(ep.edges0, LAMBDA e : AtHandle(e, ep.origin)) IN
    IF ep.origin.handleType = "target" \/ Len(atOrigin) = 1
    THEN /\ edges = SelectSeq(ep.edges0, LAMBDA e : ~AtHandle(e, ep.origin))
         /\ atOrigin # << >> => removedEdges = atOrigin
    ELSE edges = ep.edges0

\* C28: whenever the editor is Idle (no drag in progress, no menu open, no
\* deferred callback pending) the provisional side buffer is empty.
C28_IdleBufferEmpty ==
  (Idle /\ timers = << >> /\ ~flagTimer) => removedEdges = << >>

\* C29: the schema onConnectEnd infers from the handle id of the port a drag
\* started from is defined and is the schema the port's card declares for it.
C29_InferredSchemaIsDeclared ==
  (contextMenu.open /\ contextMenu.sourceHandle.handleType # "none")
  => /\ contextMenu.sourceHandle.schema # Undefined
     /\ \A p \in PortsAt(contextMenu.sourceHandle.nodeId,
                         contextMenu.sourceHandle.handleId,
                         contextMenu.sourceHandle.handleType) :
          contextMenu.sourceHandle.schema = p.schema

\* the renderedImage field of the store entry of node id
RenderedImageOf(nd, id) == FieldOf(getNodeData(nd, id), "renderedImage")

====
